---- MODULE Spec2Model ----
(***************************************************************************)
(* Model of src/main.py: the office accrual ledger, its buffs and their    *)
(* expiry tasks, the periodic timer task and the foreground menu loop, as  *)
(* cooperative asyncio tasks.  Time is counted in half seconds (the        *)
(* display debounce sleeps 0.5 s); a task keeps the event loop (cur) from  *)
(* one await that suspends to the next.                                    *)
(***************************************************************************)
EXTENDS Integers, Sequences, FiniteSets, TLC

\* ------------------------------------------------------------ bounds
MaxNow == 102
MaxBuffs == 3
MaxActions == 2
MaxStaffs == 1
MaxLiveActions == 1
MaxLevel == 10

\* ------------------------------------------------- program constants
BaseIncome == 10
InitBudgets == 1600
InitStaffCost == 160
TimerInterval == 30
SkillDuration == 10
SpecialDuration == 20
BootAmount == 70
BootDuration == 30

\* random draws, restricted to small sets
Ages == {18, 55}
SkillAmounts == {20}
SkillStacks == {1, 3}
SpecialAmounts == {15}
SpecialStacks == {1}
SpecialKinds == {"DoubleIncome", "RewindTime", "ExtraBudget"}
Positions == {"CONSULTANT", "MANAGER", "LEADER"}

\* ------------------------------------------------------------- tasks
BuffIds == 1..MaxBuffs
MainT == MaxBuffs + 1
TimerT == MaxBuffs + 2
NoTask == MaxBuffs + 3
Tasks == BuffIds \cup {MainT, TimerT}

\* ----------------------------------------------------------- helpers
Ticks(sec) == sec + sec

Min(S) == CHOOSE x \in S : \A y \in S : x <= y

\* Python round() of d half seconds: ties go to the even integer
Round(d) ==
  LET q == d \div 2
  IN IF d % 2 = 0 THEN q ELSE IF q % 2 = 0 THEN q ELSE q + 1

RECURSIVE exponentiation(_, _)
exponentiation(base, exp) ==
  IF exp = 0 THEN 1
  ELSE IF exp = 1 THEN base
  ELSE LET t == exponentiation(base, exp \div 2)
       IN IF exp % 2 = 0 THEN t * t ELSE base * (t * t)

RECURSIVE Gcd(_, _)
Gcd(a, b) == IF b = 0 THEN a ELSE Gcd(b, a % b)

ClosedCostFlat(f) == f.base_cost

\* Facility.cost without the cache.  Numerator and denominator of the
\* source's quotient share the factor Gcd(R,100)^level; it is divided out
\* of both (floor(a*k / (b*k)) = floor(a / b)), and the product with the
\* base cost is taken after the division
\* (floor(c*n / d) = c*(n div d) + floor(c*(n mod d) / d)), to stay inside
\* 32 bits.
ClosedCost(f) ==
  LET g == Gcd(f.R, 100)
      r == f.R \div g
      h == 100 \div g
      L == f.level
      n == exponentiation(r, L) - exponentiation(h, L)
      d == (r * exponentiation(h, L - 1)) - exponentiation(h, L)
  IN (f.base_cost * (n \div d)) + ((f.base_cost * (n % d)) \div d)

Cost(f) == IF f.level = f.cached[1] THEN f.cached[2] ELSE ClosedCost(f)

\* the cost property also refreshes the cache
CostCache(f) == [f EXCEPT !.cached = <<f.level, Cost(f)>>]

FacilityUpgradeNoStack(f) ==
  [f EXCEPT !.level = f.level + 1,
            !.effects = [i \in DOMAIN f.effects |->
                           [amount |-> f.effects[i].amount + 4,
                            stack |-> f.effects[i].stack]]]

\* Facility.upgrade
FacilityUpgrade(f) ==
  LET lv == f.level + 1
  IN [f EXCEPT !.level = lv,
               !.effects = [i \in DOMAIN f.effects |->
                              [amount |-> f.effects[i].amount + 4,
                               stack |-> IF lv % 10 = 0
                                         THEN f.effects[i].stack + 1
                                         ELSE f.effects[i].stack]]]

RECURSIVE Flatten(_)
Flatten(fs) == IF fs = <<>> THEN <<>> ELSE Head(fs).effects \o Flatten(Tail(fs))

\* Office.update_effects: the permanent modifiers, facility then list order
Effects(fs) == Flatten(fs)

StaticActivate(inc, b) == inc + ((inc * (b.amount * b.stack)) \div 500)

\* seconds a RewindTime buff moves last_claim back
Rewound(b) == (b.duration + b.amount) * b.stack

SleepOf(b) == IF b.kind = "RewindTime" THEN b.duration * b.stack ELSE b.duration

InitFacilities ==
  << [level |-> 1, cached |-> <<1, 50>>, base_cost |-> 50, R |-> 150,
      effects |-> << [amount |-> 5, stack |-> 1] >>],
     [level |-> 1, cached |-> <<1, 100>>, base_cost |-> 100, R |-> 175,
      effects |-> << [amount |-> 10, stack |-> 1] >>],
     [level |-> 1, cached |-> <<1, 200>>, base_cost |-> 200, R |-> 200,
      effects |-> << [amount |-> 10, stack |-> 1], [amount |-> 5, stack |-> 2] >>],
     [level |-> 1, cached |-> <<1, 350>>, base_cost |-> 350, R |-> 300,
      effects |-> << [amount |-> 10, stack |-> 1], [amount |-> 10, stack |-> 2],
                     [amount |-> 5, stack |-> 3] >>] >>

NewBuff(k, a, s, d) ==
  [kind |-> k, amount |-> a, stack |-> s, duration |-> d, running |-> FALSE]

\* ------------------------------------------------------------- state
VARIABLES
  now,            \* time.time(), in half seconds
  cur,            \* the task that holds the event loop, NoTask when idle
  pc,             \* position of every task
  wake,           \* deadline of an expiry task's asyncio.sleep
  dwake,          \* deadline of a task's DisplayState.display sleep(0.5)
  period_end,     \* deadline of create_schedule's asyncio.sleep(interval)
  budgets, income, last_claim, locked,
  facilities,     \* Office.__facilities
  buffs,          \* Office.__buffs, a list of buff objects (by identity)
  tb,             \* the timed buff objects ever constructed
  orig,           \* original_time argument of RewindTime._do_timeout
  staff_cost, staff_income, staff_counts, staff_info, staffs,
  pending_clear,  \* DisplayState._pending_clear
  errors,         \* DisplayState._errors
  upgrader,       \* state of the upgrade_facility generator
  nactions,       \* menu selections made so far
  \* history variables
  credited,       \* sum of every amount added to budgets
  debited,        \* sum of every amount taken from budgets
  entry,          \* budgets/last_claim on entry of the Collect call in progress
  inst,           \* Collect calls made at the current instant
  T0,             \* last_claim just before a RewindTime buff rewound it
  cred0,          \* credited when a RewindTime buff was activated
  rates,          \* rates settled at since a RewindTime buff was activated
  rejected        \* an upgrade request has failed

sched == <<cur, pc, wake, dwake, period_end>>
staffVars == <<staff_cost, staff_income, staff_counts, staff_info, staffs>>
uiVars == <<errors, upgrader, nactions, rejected>>
rwHist == <<T0, cred0, rates>>
vars == <<now, cur, pc, wake, dwake, period_end, budgets, income, last_claim,
          locked, facilities, buffs, tb, orig, staff_cost, staff_income,
          staff_counts, staff_info, staffs, pending_clear, errors, upgrader,
          nactions, credited, debited, entry, inst, T0, cred0, rates,
          rejected>>

NoError == [kind |-> "None", shortfall |-> 0]

NoEntry == [b |-> 0, l |-> 0, rw |-> FALSE]

NoInst == [calls |-> 0, noops |-> 0, credit |-> 0, first |-> 0, rewound |-> FALSE]

Init ==
  /\ now = 0
  /\ cur = MainT
  /\ pc = [t \in Tasks |-> IF t = MainT THEN "loop"
                           ELSE IF t = TimerT THEN "wait_period" ELSE "idle"]
  /\ wake = [b \in BuffIds |-> 0]
  /\ dwake = [t \in Tasks |-> 0]
  /\ period_end = 0
  /\ budgets = InitBudgets
  /\ income = BaseIncome
  /\ last_claim = 0
  /\ locked = FALSE
  /\ facilities = InitFacilities
  /\ buffs = <<1>>
  /\ tb = << NewBuff("TimedBuff", BootAmount, 1, BootDuration) >>
  /\ orig = [b \in BuffIds |-> 0]
  /\ staff_cost = InitStaffCost
  /\ staff_income = 0
  /\ staff_counts = 0
  /\ staff_info = [consultant |-> 0, manager |-> 0, leader |-> 0]
  /\ staffs = <<>>
  /\ pending_clear = FALSE
  /\ errors = NoError
  /\ upgrader = "AwaitingIndex"
  /\ nactions = 0
  /\ credited = 0
  /\ debited = 0
  /\ entry = NoEntry
  /\ inst = NoInst
  /\ T0 = [b \in BuffIds |-> 0]
  /\ cred0 = [b \in BuffIds |-> 0]
  /\ rates = [b \in BuffIds |-> {}]
  /\ rejected = FALSE

\* ------------------------------------------------- rate recomputation
ActivateAlways(id, st) ==
  LET b == st.tb[id]
      started == IF b.running THEN st
                 ELSE [st EXCEPT !.tb[id].running = TRUE, !.pc[id] = "created"]
  IN CASE b.kind \in {"TimedBuff", "ExtraBudget"} ->
            [started EXCEPT !.income = StaticActivate(st.income, b)]
       [] b.kind = "DoubleIncome" ->
            [started EXCEPT !.income = st.income + (st.income * (1 + b.stack))]
       [] b.kind = "RewindTime" ->
            [started EXCEPT
               !.last_claim = st.last_claim - Ticks(Rewound(b)),
               !.orig[id] = IF b.running THEN st.orig[id]
                            ELSE st.last_claim - Ticks(Rewound(b)),
               !.T0[id] = IF b.running THEN st.T0[id] ELSE st.last_claim]

ActivateRestart(id, st) ==
  LET b == st.tb[id]
      started == [st EXCEPT !.tb[id].running = TRUE, !.pc[id] = "created"]
  IN CASE b.kind \in {"TimedBuff", "ExtraBudget"} ->
            [started EXCEPT !.income = StaticActivate(st.income, b)]
       [] b.kind = "DoubleIncome" ->
            [started EXCEPT !.income = st.income + (st.income * (1 + b.stack))]
       [] b.kind = "RewindTime" ->
            IF b.running THEN started
            ELSE [started EXCEPT
                    !.last_claim = st.last_claim - Ticks(Rewound(b)),
                    !.orig[id] = st.last_claim - Ticks(Rewound(b)),
                    !.T0[id] = st.last_claim]

\* x.activate() for one timed buff; st carries what activation can touch
Activate(id, st) ==
  LET b == st.tb[id]
      started == IF b.running THEN st
                 ELSE [st EXCEPT !.tb[id].running = TRUE, !.pc[id] = "created"]
  IN CASE b.kind \in {"TimedBuff", "ExtraBudget"} ->
            [started EXCEPT !.income = StaticActivate(st.income, b)]
       [] b.kind = "DoubleIncome" ->
            [started EXCEPT !.income = st.income + (st.income * (1 + b.stack))]
       [] b.kind = "RewindTime" ->
            IF b.running THEN st
            ELSE [started EXCEPT
                    !.last_claim = st.last_claim - Ticks(Rewound(b)),
                    !.orig[id] = st.last_claim - Ticks(Rewound(b)),
                    !.T0[id] = st.last_claim]

\* the facility effects in list order; each intermediate rate is bound as a
\* value, so that it is computed once
RECURSIVE ActivateStatic(_, _)
ActivateStatic(es, inc) ==
  IF es = <<>> THEN inc
  ELSE CHOOSE r \in {ActivateStatic(Tail(es), i) : i \in {StaticActivate(inc, Head(es))}} : TRUE

RECURSIVE ActivateAll(_, _)
ActivateAll(ids, st) ==
  IF ids = <<>> THEN st
  ELSE CHOOSE r \in {ActivateAll(Tail(ids), s) : s \in {Activate(Head(ids), st)}} : TRUE

UpdateIncomeCompound ==
  LET st0 == [income |-> ActivateStatic(Effects(facilities), income),
              last_claim |-> last_claim, tb |-> tb, pc |-> pc,
              orig |-> orig, T0 |-> T0]
      st1 == ActivateAll(buffs, st0)
  IN [st1 EXCEPT !.income = @ + staff_income]

UpdateIncomeStaffFirst ==
  LET st0 == [income |-> ActivateStatic(Effects(facilities), BaseIncome + staff_income),
              last_claim |-> last_claim, tb |-> tb, pc |-> pc,
              orig |-> orig, T0 |-> T0]
  IN ActivateAll(buffs, st0)

\* Office.update_income on the current state
UpdateIncome ==
  LET st0 == [income |-> ActivateStatic(Effects(facilities), BaseIncome),
              last_claim |-> last_claim, tb |-> tb, pc |-> pc,
              orig |-> orig, T0 |-> T0]
      st1 == ActivateAll(buffs, st0)
  IN [st1 EXCEPT !.income = @ + staff_income]

\* the RewindTime buffs an update_income has just activated
Rewinds(ui) ==
  {b \in DOMAIN tb : tb[b].kind = "RewindTime" /\ ~tb[b].running /\ ui.tb[b].running}

\* assign the outcome of update_income, pc excepted
ApplyUpdate(ui) ==
  /\ income' = ui.income
  /\ last_claim' = ui.last_claim
  /\ tb' = ui.tb
  /\ orig' = ui.orig
  /\ T0' = ui.T0
  /\ cred0' = [b \in BuffIds |-> IF b \in Rewinds(ui) THEN credited ELSE cred0[b]]
  /\ rates' = [b \in BuffIds |-> IF b \in Rewinds(ui) THEN {} ELSE rates[b]]

\* ------------------------------------------------------- control flow
NextPcRemoveFirst(t, p) ==
  CASE p = "sleeping" -> IF t \in BuffIds THEN "remove" ELSE "collect"
    [] p = "remove" -> "collect"
    [] p = "collect" -> "settle"
    [] p = "settle" -> IF t \in BuffIds THEN "update" ELSE "display"
    [] p = "update" -> "display"
    [] OTHER -> p

NextPcNoRemove(t, p) ==
  CASE p = "sleeping" -> "collect"
    [] p = "collect" -> "settle"
    [] p = "settle" -> IF t \in BuffIds THEN "update" ELSE "display"
    [] p = "update" -> "display"
    [] OTHER -> p

\* where a task goes once the step at p is done: TimedBuff._do_timeout and
\* RewindTime._do_timeout sleep, collect, remove the buff, recompute the
\* rate and display; timer_task collects and displays
NextPc(t, p) ==
  CASE p = "sleeping" -> "collect"
    [] p = "collect" -> "settle"
    [] p = "settle" -> IF t \in BuffIds THEN "remove" ELSE "display"
    [] p = "remove" -> "update"
    [] p = "update" -> "display"
    [] OTHER -> p

\* ------------------------------------------------------------ Collect
AcquireNothing == locked' = locked

\* async with self.__lock: a free asyncio.Lock is taken without suspending
Acquire == ~locked /\ locked' = TRUE

\* Office.collect up to the computation of cl: the lock is taken (an
\* asyncio.Lock that is free is acquired without suspending), the time is
\* read and the rate is recomputed
CollectEnter(t) ==
  /\ cur = t /\ pc[t] = "collect"
  /\ Acquire
  /\ \E ui \in {UpdateIncome} :
        /\ ApplyUpdate(ui)
        /\ pc' = [ui.pc EXCEPT ![t] = NextPc(t, "collect")]
        /\ entry' = [b |-> budgets, l |-> last_claim, rw |-> Rewinds(ui) # {}]
        /\ inst' = [inst EXCEPT !.calls = @ + 1,
                                !.rewound = @ \/ (Rewinds(ui) # {})]
  /\ UNCHANGED <<now, cur, wake, dwake, period_end, budgets, facilities, buffs,
                 staffVars, pending_clear, uiVars, credited, debited>>

\* the rest of Office.collect: the early return when cl is 0, the settlement
\* and the release of the lock
SettleWith(t, cl, claim) ==
  /\ cur = t /\ pc[t] = "settle"
  /\ IF cl = 0
        THEN UNCHANGED <<budgets, last_claim, credited, rates>>
             /\ inst' = [inst EXCEPT !.noops = @ + 1]
        ELSE /\ budgets' = budgets + cl
             /\ last_claim' = claim
             /\ credited' = credited + cl
             /\ rates' = [b \in BuffIds |->
                            IF b <= Len(tb) /\ tb[b].kind = "RewindTime"
                               /\ tb[b].running /\ pc[b] # "done"
                            THEN rates[b] \cup {income} ELSE rates[b]]
             /\ inst' = [inst EXCEPT !.credit = @ + cl,
                                     !.first = IF inst.calls = 1 THEN cl ELSE @]
  /\ locked' = FALSE
  /\ entry' = NoEntry
  /\ pc' = [pc EXCEPT ![t] = NextPc(t, "settle")]
  /\ UNCHANGED <<now, cur, wake, dwake, period_end, income, facilities, buffs,
                 tb, orig, staffVars, pending_clear, uiVars, debited, T0, cred0>>

SettleBaseRate(t) == SettleWith(t, BaseIncome * Round(now - last_claim), now)

SettleSinceStart(t) == SettleWith(t, income * Round(now), now)

SettleKeepsClaim(t) == SettleWith(t, income * Round(now - last_claim), last_claim)

Settle(t) == SettleWith(t, income * Round(now - last_claim), now)

\* ------------------------------------------------------- expiry tasks
\* first run of the task made by activate(): it starts to sleep
StartExpiry(b) ==
  /\ cur = NoTask /\ pc[b] = "created"
  /\ wake' = [wake EXCEPT ![b] = now + Ticks(SleepOf(tb[b]))]
  /\ pc' = [pc EXCEPT ![b] = "sleeping"]
  /\ UNCHANGED <<now, cur, dwake, period_end, budgets, income, last_claim,
                 locked, facilities, buffs, tb, orig, staffVars, pending_clear,
                 uiVars, credited, debited, entry, inst, rwHist>>

\* the sleep is over; RewindTime sets the frozen claim time before it collects
WakeExpiry(b) ==
  /\ cur = NoTask /\ pc[b] = "sleeping" /\ wake[b] <= now
  /\ cur' = b
  /\ pc' = [pc EXCEPT ![b] = NextPc(b, "sleeping")]
  /\ IF tb[b].kind = "RewindTime"
     THEN /\ last_claim' = orig[b] - Ticks(Rewound(tb[b]))
          /\ inst' = [inst EXCEPT !.rewound = TRUE]
     ELSE UNCHANGED <<last_claim, inst>>
  /\ UNCHANGED <<now, wake, dwake, period_end, budgets, income, locked,
                 facilities, buffs, tb, orig, staffVars, pending_clear, uiVars,
                 credited, debited, entry, rwHist>>

\* Office.remove_buff: the first entry that is this object
RemoveBuff(bs, b) ==
  LET i == Min({k \in DOMAIN bs : bs[k] = b})
  IN SubSeq(bs, 1, i - 1) \o SubSeq(bs, i + 1, Len(bs))

\* self._office.remove_buff(self) in _do_timeout; when the buff is not in
\* the list remove_buff raises ValueError, which ends the expiry task
Remove(b) ==
  /\ cur = b /\ pc[b] = "remove"
  /\ IF \E k \in DOMAIN buffs : buffs[k] = b
     THEN /\ buffs' = RemoveBuff(buffs, b)
          /\ pc' = [pc EXCEPT ![b] = NextPc(b, "remove")]
          /\ cur' = cur
     ELSE /\ buffs' = buffs
          /\ pc' = [pc EXCEPT ![b] = "raised"]
          /\ cur' = NoTask
  /\ UNCHANGED <<now, wake, dwake, period_end, budgets, income, last_claim,
                 locked, facilities, tb, orig, staffVars, pending_clear, uiVars,
                 credited, debited, entry, inst, rwHist>>

\* Office.remove_buff called from outside the expiry task, for a buff whose
\* expiry timer is pending
ForceRemove(b) ==
  /\ cur = NoTask /\ pc[b] = "sleeping"
  /\ \E k \in DOMAIN buffs : buffs[k] = b
  /\ buffs' = RemoveBuff(buffs, b)
  /\ UNCHANGED <<now, sched, budgets, income, last_claim, locked, facilities,
                 tb, orig, staffVars, pending_clear, uiVars, credited, debited,
                 entry, inst, rwHist>>

Update(b) ==
  /\ cur = b /\ pc[b] = "update"
  /\ \E ui \in {UpdateIncome} :
        /\ ApplyUpdate(ui)
        /\ pc' = [ui.pc EXCEPT ![b] = NextPc(b, "update")]
        /\ inst' = [inst EXCEPT !.rewound = @ \/ (Rewinds(ui) # {})]
  /\ UNCHANGED <<now, cur, wake, dwake, period_end, budgets, locked, facilities,
                 buffs, staffVars, pending_clear, uiVars, credited, debited,
                 entry>>

PostBuffNoBonus(b) ==
  /\ cur = b /\ pc[b] = "post"
  /\ cur' = NoTask
  /\ pc' = [pc EXCEPT ![b] = "done"]
  /\ CASE tb[b].kind = "RewindTime" ->
            /\ last_claim' = orig[b]
            /\ inst' = [inst EXCEPT !.rewound = TRUE]
            /\ UNCHANGED <<budgets, credited>>
       [] OTHER -> UNCHANGED <<budgets, credited, last_claim, inst>>
  /\ UNCHANGED <<now, wake, dwake, period_end, income, locked, facilities,
                 buffs, tb, orig, staffVars, pending_clear, uiVars, debited,
                 entry, rwHist>>

\* what follows display() in _do_timeout
PostBuff(b) ==
  /\ cur = b /\ pc[b] = "post"
  /\ cur' = NoTask
  /\ pc' = [pc EXCEPT ![b] = "done"]
  /\ CASE tb[b].kind = "ExtraBudget" ->
            LET bonus == (budgets * (tb[b].amount * tb[b].stack)) \div 500
            IN /\ budgets' = budgets + bonus
               /\ credited' = credited + bonus
               /\ UNCHANGED <<last_claim, inst>>
       [] tb[b].kind = "RewindTime" ->
            /\ last_claim' = orig[b]
            /\ inst' = [inst EXCEPT !.rewound = TRUE]
            /\ UNCHANGED <<budgets, credited>>
       [] OTHER -> UNCHANGED <<budgets, credited, last_claim, inst>>
  /\ UNCHANGED <<now, wake, dwake, period_end, income, locked, facilities,
                 buffs, tb, orig, staffVars, pending_clear, uiVars, debited,
                 entry, rwHist>>

\* ------------------------------------------------------------ display
\* DisplayState.display up to its sleep: a render already pending makes the
\* call return at once, without suspending
Display(t) ==
  /\ cur = t /\ pc[t] = "display"
  /\ IF pending_clear
     THEN /\ pc' = [pc EXCEPT ![t] = "post"]
          /\ UNCHANGED <<cur, dwake, pending_clear>>
     ELSE /\ pending_clear' = TRUE
          /\ dwake' = [dwake EXCEPT ![t] = now + 1]
          /\ pc' = [pc EXCEPT ![t] = "display_sleep"]
          /\ cur' = NoTask
  /\ UNCHANGED <<now, wake, period_end, budgets, income, last_claim, locked,
                 facilities, buffs, tb, orig, staffVars, uiVars, credited,
                 debited, entry, inst, rwHist>>

\* the render: Office.display reads every facility's cost
DisplayWake(t) ==
  /\ cur = NoTask /\ pc[t] = "display_sleep" /\ dwake[t] <= now
  /\ cur' = t
  /\ pc' = [pc EXCEPT ![t] = "post"]
  /\ dwake' = [dwake EXCEPT ![t] = 0]
  /\ facilities' = [i \in DOMAIN facilities |-> CostCache(facilities[i])]
  /\ pending_clear' = FALSE
  /\ UNCHANGED <<now, wake, period_end, budgets, income, last_claim,
                 locked, buffs, tb, orig, staffVars, uiVars, credited, debited,
                 entry, inst, rwHist>>

\* --------------------------------------------------------- timer task
SkillDraws(position) ==
  [amount : SkillAmounts, stack : SkillStacks,
   special : IF position = "LEADER" THEN SpecialKinds \cup {"none"} ELSE {"none"},
   samount : SpecialAmounts, sstack : SpecialStacks]

\* Staff.use_skill: the buffs one retained staff adds
UseSkill(position, d) ==
  << NewBuff("TimedBuff", d.amount, d.stack, SkillDuration) >>
  \o (IF position = "LEADER" /\ d.special # "none"
      THEN << NewBuff(d.special, d.samount, d.sstack, SpecialDuration) >>
      ELSE << >>)

RECURSIVE UseStaffSkill(_, _)
UseStaffSkill(ss, ds) ==
  IF ss = <<>> THEN <<>>
  ELSE UseSkill(Head(ss), Head(ds)) \o UseStaffSkill(Tail(ss), Tail(ds))

\* one round of create_schedule: the interval sleep starts and timer_task
\* runs up to its Collect
TimerFire ==
  /\ cur = NoTask /\ pc[TimerT] = "wait_period" /\ period_end <= now
  /\ \E ds \in [DOMAIN staffs -> UNION {SkillDraws(p) : p \in Positions}] :
       /\ \A i \in DOMAIN staffs : ds[i] \in SkillDraws(staffs[i])
       /\ LET new == UseStaffSkill(staffs, ds)
          IN /\ Len(tb) + Len(new) <= MaxBuffs
             /\ tb' = tb \o new
             /\ buffs' = buffs \o [i \in 1..Len(new) |-> Len(tb) + i]
  /\ period_end' = now + Ticks(TimerInterval)
  /\ cur' = TimerT
  /\ pc' = [pc EXCEPT ![TimerT] = "collect"]
  /\ UNCHANGED <<now, wake, dwake, budgets, income, last_claim, locked,
                 facilities, orig, staffVars, pending_clear, uiVars, credited,
                 debited, entry, inst, rwHist>>

PostTimer ==
  /\ cur = TimerT /\ pc[TimerT] = "post"
  /\ cur' = NoTask
  /\ pc' = [pc EXCEPT ![TimerT] = "wait_period"]
  /\ UNCHANGED <<now, wake, dwake, period_end, budgets, income, last_claim,
                 locked, facilities, buffs, tb, orig, staffVars, pending_clear,
                 uiVars, credited, debited, entry, inst, rwHist>>

\* --------------------------------------------------------------- time
Ready ==
  \/ \E b \in BuffIds : pc[b] = "created" \/ (pc[b] = "sleeping" /\ wake[b] <= now)
  \/ \E t \in Tasks : pc[t] = "display_sleep" /\ dwake[t] <= now
  \/ pc[TimerT] = "wait_period" /\ period_end <= now

Deadlines ==
  {wake[b] : b \in {x \in BuffIds : pc[x] = "sleeping"}}
  \cup {dwake[t] : t \in {x \in Tasks : pc[x] = "display_sleep"}}
  \cup (IF pc[TimerT] = "wait_period" THEN {period_end} ELSE {})

\* the loop has nothing to run: time passes until the next timer is due
Tick ==
  /\ cur = NoTask /\ ~Ready
  /\ Deadlines # {}
  /\ Min(Deadlines) <= MaxNow
  /\ now' = Min(Deadlines)
  /\ inst' = NoInst
  /\ UNCHANGED <<sched, budgets, income, last_claim, locked, facilities, buffs,
                 tb, orig, staffVars, pending_clear, uiVars, credited, debited,
                 entry, rwHist>>

\* ---------------------------------------------------------- main loop
\* top of the while loop of main(): office.update_income()
MainLoop ==
  /\ cur = MainT /\ pc[MainT] = "loop"
  /\ \E ui \in {UpdateIncome} :
        /\ ApplyUpdate(ui)
        /\ pc' = [ui.pc EXCEPT ![MainT] = "display"]
        /\ inst' = [inst EXCEPT !.rewound = @ \/ (Rewinds(ui) # {})]
  /\ UNCHANGED <<now, cur, wake, dwake, period_end, budgets, locked, facilities,
                 buffs, staffVars, pending_clear, uiVars, credited, debited,
                 entry>>

\* state.get_input(MENU): the loop waits for the executor
PostMain ==
  /\ cur = MainT /\ pc[MainT] = "post"
  /\ cur' = NoTask
  /\ pc' = [pc EXCEPT ![MainT] = "await_menu"]
  /\ UNCHANGED <<now, wake, dwake, period_end, budgets, income, last_claim,
                 locked, facilities, buffs, tb, orig, staffVars, pending_clear,
                 uiVars, credited, debited, entry, inst, rwHist>>

InvalidOption == [kind |-> "Invalid option", shortfall |-> 0]

MenuInputs == {"invalid", "0", "1", "2", "other"}

\* the menu selection arrives, at any moment the loop is idle; nothing the
\* menu does reads the clock
UserMenu(opt) ==
  /\ cur = NoTask /\ pc[MainT] = "await_menu"
  /\ nactions < MaxActions
  /\ nactions' = nactions + 1
  /\ errors' = IF opt \in {"invalid", "other"} THEN InvalidOption ELSE NoError
  /\ pc' = [pc EXCEPT ![MainT] =
              CASE opt = "0" -> "exit"
                [] opt = "1" -> "await_fi"
                [] opt = "2" -> "await_hire"
                [] OTHER -> "loop"]
  /\ cur' = IF opt \in {"invalid", "other"} THEN MainT ELSE NoTask
  /\ UNCHANGED <<now, wake, dwake, period_end, budgets, income, last_claim,
                 locked, facilities, buffs, tb, orig, staffVars, pending_clear,
                 upgrader, rejected, credited, debited, entry, inst, rwHist>>

NotEnoughNever(cost, budget) == FALSE

\* the affordability test of upgrade_facility and hire_staff
NotEnough(cost, budget) == cost > budget

DebitLost(budget, cost) == budget

\* self.__budgets -= cost
Debit(budget, cost) == budget - cost

UpgradeFacilityPartial(i) ==
  IF i < 1 \/ i > Len(facilities)
  THEN [facilities |-> facilities, budgets |-> budgets, debit |-> 0,
        errors |-> [kind |-> "IndexError", shortfall |-> 0]]
  ELSE LET c == Cost(facilities[i])
           cached == [facilities EXCEPT ![i] = CostCache(facilities[i])]
       IN IF NotEnough(c, budgets)
          THEN [facilities |-> [cached EXCEPT ![i] = FacilityUpgrade(cached[i])],
                budgets |-> budgets, debit |-> 0,
                errors |-> [kind |-> "NotEnoughBudget", shortfall |-> c - budgets]]
          ELSE [facilities |-> [cached EXCEPT ![i] = FacilityUpgrade(cached[i])],
                budgets |-> Debit(budgets, c), debit |-> c, errors |-> NoError]

\* upgrader.send(i - 1) with the 1-based selection i: one round of the
\* upgrade_facility generator, or the exception that ends it
UpgradeFacility(i) ==
  IF i < 1 \/ i > Len(facilities)
  THEN [facilities |-> facilities, budgets |-> budgets, debit |-> 0,
        errors |-> [kind |-> "IndexError", shortfall |-> 0]]
  ELSE LET c == Cost(facilities[i])
           cached == [facilities EXCEPT ![i] = CostCache(facilities[i])]
       IN IF NotEnough(c, budgets)
          THEN [facilities |-> cached, budgets |-> budgets, debit |-> 0,
                errors |-> [kind |-> "NotEnoughBudget", shortfall |-> c - budgets]]
          ELSE [facilities |-> [cached EXCEPT ![i] = FacilityUpgrade(cached[i])],
                budgets |-> Debit(budgets, c), debit |-> c, errors |-> NoError]

\* the facility selection arrives
UserFacility(ok, i) ==
  /\ cur = NoTask /\ pc[MainT] = "await_fi"
  /\ IF ~ok
     THEN /\ errors' = InvalidOption
          /\ UNCHANGED <<facilities, budgets, debited>>
     ELSE LET r == UpgradeFacility(i)
          IN /\ facilities' = r.facilities
             /\ budgets' = r.budgets
             /\ debited' = debited + r.debit
             /\ errors' = r.errors
  /\ upgrader' = IF ok /\ UpgradeFacility(i).errors # NoError
                 THEN "closed" ELSE upgrader
  /\ rejected' = (rejected \/ (ok /\ UpgradeFacility(i).errors # NoError))
  /\ pc' = [pc EXCEPT ![MainT] = IF ok /\ UpgradeFacility(i).errors # NoError
                                 THEN "recreate" ELSE "loop"]
  /\ cur' = MainT
  /\ UNCHANGED <<now, wake, dwake, period_end, income, last_claim, locked,
                 buffs, tb, orig, staffVars, pending_clear, nactions, credited,
                 entry, inst, rwHist>>

RecreateNothing ==
  /\ cur = MainT /\ pc[MainT] = "recreate"
  /\ pc' = [pc EXCEPT ![MainT] = "loop"]
  /\ UNCHANGED <<now, cur, wake, dwake, period_end, budgets, income, last_claim,
                 locked, facilities, buffs, tb, orig, staffVars, pending_clear,
                 uiVars, credited, debited, entry, inst, rwHist>>

\* the except branch of main(): a new generator replaces the ended one
Recreate ==
  /\ cur = MainT /\ pc[MainT] = "recreate"
  /\ upgrader' = "AwaitingIndex"
  /\ pc' = [pc EXCEPT ![MainT] = "loop"]
  /\ UNCHANGED <<now, cur, wake, dwake, period_end, budgets, income, last_claim,
                 locked, facilities, buffs, tb, orig, staffVars, pending_clear,
                 errors, nactions, rejected, credited, debited, entry, inst,
                 rwHist>>

\* ------------------------------------------------------------- hiring
GetStaffCost(bulk_10) ==
  IF bulk_10
  THEN LET a == 10 - (staff_counts % 10)
       IN (staff_cost * a) + (staff_cost * 3 * (10 - a))
  ELSE staff_cost

StaffDraws == [position : Positions, age : Ages]

\* the random ranks and ages of k hires: any first hire, then consultants
\* of the same age
HireDraws(k) ==
  {[i \in 1..k |-> IF i = 1 THEN f ELSE [position |-> "CONSULTANT", age |-> f.age]] :
     f \in StaffDraws}

Max(a, b) == IF a >= b THEN a ELSE b

StaffIncomeFlat(st) == 10 * Len(st)

\* Staff.__init__ for each hire: office.staff_income += max(55-age, 10)
RECURSIVE StaffIncomeOf(_)
StaffIncomeOf(st) ==
  IF st = <<>> THEN 0 ELSE Max(55 - Head(st).age, 10) + StaffIncomeOf(Tail(st))

Count(st, position) == Cardinality({i \in DOMAIN st : st[i].position = position})

RECURSIVE Retained(_)
Retained(st) ==
  IF st = <<>> THEN <<>>
  ELSE (IF Head(st).position = "CONSULTANT" THEN <<>> ELSE << Head(st).position >>)
       \o Retained(Tail(st))

HireStaffPartial(bulk_10, st) ==
  LET cost == GetStaffCost(bulk_10)
  IN IF NotEnough(cost, budgets)
     THEN /\ errors' = [kind |-> "NotEnoughBudget", shortfall |-> cost - budgets]
          /\ staff_income' = staff_income + StaffIncomeOf(st)
          /\ staff_counts' = staff_counts + Len(st)
          /\ UNCHANGED <<budgets, debited, staff_cost, staff_info, staffs>>
     ELSE /\ staff_income' = staff_income + StaffIncomeOf(st)
          /\ staff_info' = [consultant |-> staff_info.consultant + Count(st, "CONSULTANT"),
                            manager |-> staff_info.manager + Count(st, "MANAGER"),
                            leader |-> staff_info.leader + Count(st, "LEADER")]
          /\ staff_counts' = staff_counts + Len(st)
          /\ budgets' = Debit(budgets, cost)
          /\ debited' = debited + cost
          /\ staff_cost' = 180 * exponentiation(3, (staff_counts + Len(st)) \div 10)
          /\ staffs' = staffs \o Retained(st)
          /\ errors' = NoError

\* Office.hire_staff with the drawn staff st
HireStaff(bulk_10, st) ==
  LET cost == GetStaffCost(bulk_10)
  IN IF NotEnough(cost, budgets)
     THEN /\ errors' = [kind |-> "NotEnoughBudget", shortfall |-> cost - budgets]
          /\ UNCHANGED <<budgets, debited, staffVars>>
     ELSE /\ staff_income' = staff_income + StaffIncomeOf(st)
          /\ staff_info' = [consultant |-> staff_info.consultant + Count(st, "CONSULTANT"),
                            manager |-> staff_info.manager + Count(st, "MANAGER"),
                            leader |-> staff_info.leader + Count(st, "LEADER")]
          /\ staff_counts' = staff_counts + Len(st)
          /\ budgets' = Debit(budgets, cost)
          /\ debited' = debited + cost
          /\ staff_cost' = 180 * exponentiation(3, (staff_counts + Len(st)) \div 10)
          /\ staffs' = staffs \o Retained(st)
          /\ errors' = NoError

\* the hire selection arrives
UserHire(ok, opt, st) ==
  /\ cur = NoTask /\ pc[MainT] = "await_hire"
  /\ Len(staffs) + Len(Retained(st)) <= MaxStaffs
  /\ IF ~ok
     THEN /\ errors' = InvalidOption
          /\ UNCHANGED <<budgets, debited, staffVars>>
     ELSE CASE opt = 1 -> Len(st) = 1 /\ HireStaff(FALSE, st)
            [] opt = 2 -> Len(st) = 10 /\ HireStaff(TRUE, st)
            [] OTHER -> /\ Len(st) = 1
                        /\ errors' = [kind |-> "Invalid hire option", shortfall |-> 0]
                        /\ UNCHANGED <<budgets, debited, staffVars>>
  /\ pc' = [pc EXCEPT ![MainT] = "loop"]
  /\ cur' = MainT
  /\ UNCHANGED <<now, wake, dwake, period_end, income, last_claim, locked,
                 facilities, buffs, tb, orig, pending_clear, upgrader, nactions,
                 rejected,
                 credited, entry, inst, rwHist>>

\* ------------------------------------------------------ specification
Next ==
  /\ pc[MainT] # "exit"
  /\ \/ MainLoop
     \/ PostMain
     \/ \E opt \in MenuInputs : UserMenu(opt)
     \/ \E ok \in BOOLEAN, i \in 0..(Len(facilities) + 1) : UserFacility(ok, i)
     \/ Recreate
     \/ \E ok \in BOOLEAN, opt \in 1..3, st \in HireDraws(1) \cup HireDraws(10) :
          UserHire(ok, opt, st)
     \/ TimerFire
     \/ PostTimer
     \/ \E t \in Tasks : CollectEnter(t) \/ Settle(t) \/ Display(t) \/ DisplayWake(t)
     \/ \E b \in BuffIds : StartExpiry(b) \/ WakeExpiry(b) \/ Remove(b)
                           \/ Update(b) \/ PostBuff(b)
     \/ Tick

Spec == Init /\ [][Next]_vars

\* the steps the event loop takes by itself: every step but the arrival of
\* user input
LoopStep ==
  /\ pc[MainT] # "exit"
  /\ \/ MainLoop \/ PostMain \/ Recreate \/ TimerFire \/ PostTimer \/ Tick
     \/ \E t \in Tasks : CollectEnter(t) \/ Settle(t) \/ Display(t) \/ DisplayWake(t)
     \/ \E b \in BuffIds : StartExpiry(b) \/ WakeExpiry(b) \/ Remove(b)
                           \/ Update(b) \/ PostBuff(b)

\* the event loop runs whatever is ready and time passes; the user may stay
\* silent
LiveNext ==
  /\ pc[MainT] # "exit"
  /\ \/ MainLoop
     \/ PostMain
     \/ nactions < MaxLiveActions /\ \E opt \in MenuInputs : UserMenu(opt)
     \/ \E ok \in BOOLEAN, i \in 0..(Len(facilities) + 1) : UserFacility(ok, i)
     \/ Recreate
     \/ \E ok \in BOOLEAN, opt \in 1..3, st \in HireDraws(1) \cup HireDraws(10) :
          UserHire(ok, opt, st)
     \/ TimerFire
     \/ PostTimer
     \/ \E t \in Tasks : CollectEnter(t) \/ Settle(t) \/ Display(t) \/ DisplayWake(t)
     \/ \E b \in BuffIds : StartExpiry(b) \/ WakeExpiry(b) \/ Remove(b)
                           \/ Update(b) \/ PostBuff(b)
     \/ Tick

LiveSpec == Init /\ [][LiveNext]_vars /\ WF_vars(LoopStep)

\* the program with a caller that may remove a buff before its timer fires
ForceNext ==
  \/ LiveNext
  \/ pc[MainT] # "exit" /\ \E b \in BuffIds : ForceRemove(b)

ForceSpec == Init /\ [][ForceNext]_vars

\* ------------------------------------------- upgrades at every level
\* the facility f after n calls of Facility.upgrade
RECURSIVE Upgraded(_, _)
Upgraded(f, n) ==
  IF n = 0 THEN f
  ELSE CHOOSE r \in {Upgraded(g, n - 1) : g \in {FacilityUpgrade(f)}} : TRUE

\* the office waits for a facility selection; one facility has been upgraded
\* to any level below MaxLevel, its cost read since (fresh) or not, and the
\* budget is nothing, just short of its cost, exactly its cost, or more
UpgradeInit ==
  /\ \E j \in DOMAIN InitFacilities, L \in 1..(MaxLevel - 1), fresh \in BOOLEAN :
        \E f \in {Upgraded(InitFacilities[j], L - 1)} :
          \E g \in {IF L = 1 \/ fresh THEN CostCache(f)
                     ELSE [f EXCEPT !.cached = <<L - 1, Cost([f EXCEPT !.level = L - 1])>>]} :
            /\ facilities = [InitFacilities EXCEPT ![j] = g]
            /\ budgets \in {0, Cost(g) - 1, Cost(g), Cost(g) + InitBudgets}
  /\ now = 0
  /\ cur = NoTask
  /\ pc = [t \in Tasks |-> IF t = MainT THEN "await_fi"
                           ELSE IF t = TimerT THEN "wait_period" ELSE "idle"]
  /\ wake = [b \in BuffIds |-> 0]
  /\ dwake = [t \in Tasks |-> 0]
  /\ period_end = Ticks(TimerInterval)
  /\ income = BaseIncome
  /\ last_claim = 0
  /\ locked = FALSE
  /\ buffs = <<>>
  /\ tb = <<>>
  /\ orig = [b \in BuffIds |-> 0]
  /\ staff_cost = InitStaffCost
  /\ staff_income = 0
  /\ staff_counts = 0
  /\ staff_info = [consultant |-> 0, manager |-> 0, leader |-> 0]
  /\ staffs = <<>>
  /\ pending_clear = FALSE
  /\ errors = NoError
  /\ upgrader = "AwaitingIndex"
  /\ nactions = 0
  /\ credited = 0
  /\ debited = 0
  /\ entry = NoEntry
  /\ inst = NoInst
  /\ T0 = [b \in BuffIds |-> 0]
  /\ cred0 = [b \in BuffIds |-> 0]
  /\ rates = [b \in BuffIds |-> {}]
  /\ rejected = FALSE

UpgradeNext ==
  \/ \E ok \in BOOLEAN, i \in 0..(Len(facilities) + 1) : UserFacility(ok, i)
  \/ Recreate

UpgradeSpec == UpgradeInit /\ [][UpgradeNext]_vars

\* ------------------------------------------------------------- claims
InList(b) == \E k \in DOMAIN buffs : buffs[k] = b

SettleStep(t) == pc[t] = "settle" /\ pc'[t] # "settle"

\* C1: a Collect that, its rate freshly recomputed to r, finds
\* t = round(now - lastSettlementTime) >= 1 whole seconds elapsed adds
\* exactly r*t to the budget and sets lastSettlementTime to now; t is the
\* time elapsed when the call was issued unless the recomputation has just
\* activated a RewindTime buff.
C1_CollectCredits ==
  [][\A t \in Tasks :
       /\ (SettleStep(t) /\ Round(now - last_claim) >= 1)
          => /\ budgets' = budgets + (UpdateIncome.income * Round(now - last_claim))
             /\ last_claim' = now
       /\ (SettleStep(t) /\ ~entry.rw) => last_claim = entry.l]_vars

C1_Witness == inst.credit > 0 /\ last_claim = now /\ income > BaseIncome

\* C2 as claimed: a Collect call issued when zero whole seconds have elapsed
\* since lastSettlementTime leaves budget and lastSettlementTime as they
\* were when it was issued.
C2_Original ==
  [][\A t \in Tasks :
       (SettleStep(t) /\ Round(now - entry.l) = 0)
       => (budgets' = entry.b /\ last_claim' = entry.l)]_vars

\* C2 amended: a Collect call issued when zero whole seconds have elapsed,
\* and whose rate recomputation activates no RewindTime buff, leaves budget
\* and lastSettlementTime unchanged, however often it is repeated.
C2_NoElapsedNoop ==
  [][\A t \in Tasks :
       (SettleStep(t) /\ Round(now - entry.l) = 0 /\ ~entry.rw)
       => (budgets' = entry.b /\ last_claim' = entry.l)]_vars

C2_Witness == inst.noops >= 1 /\ inst.calls >= 2 /\ ~inst.rewound /\ ~locked

\* C3 as claimed: when two or more tasks call Collect at the same instant,
\* t >= 1 whole seconds after the last settlement, the budget has grown by
\* exactly the first call's r*t once all calls have returned.
C3_Original ==
  (inst.calls >= 2 /\ inst.first > 0 /\ ~locked) => inst.credit = inst.first

\* C3 amended: the same, provided no RewindTime buff moves
\* lastSettlementTime at that instant (none is activated by one of the
\* calls, none of the calls is made by a RewindTime expiry task): the later
\* calls add nothing.
C3_OneSettlement ==
  (inst.calls >= 2 /\ inst.first > 0 /\ ~inst.rewound /\ ~locked)
  => inst.credit = inst.first

C3_Witness ==
  /\ inst.calls >= 2 /\ inst.first > 0 /\ ~inst.rewound /\ ~locked
  /\ budgets = InitBudgets + credited - debited
  /\ credited = inst.first

\* C4: at most one task is between Collect's read of the office and its
\* writes, and that task holds the office lock.
C4_OneInCollect ==
  /\ \A t1, t2 \in Tasks : (pc[t1] = "settle" /\ pc[t2] = "settle") => t1 = t2
  /\ \A t \in Tasks : pc[t] = "settle" => (locked /\ cur = t)

C4_Witness ==
  \E t \in Tasks, b \in BuffIds :
    pc[t] = "settle" /\ t # b /\ pc[b] = "sleeping" /\ wake[b] <= now

\* C5: no budget update is lost: the budget is the initial budget plus every
\* settled delta and bonus minus every debited cost.
C5_NoLostUpdate == budgets = (InitBudgets + credited) - debited

C5_Witness ==
  /\ credited > 0 /\ debited > 0
  /\ \E b \in DOMAIN tb : tb[b].kind = "ExtraBudget" /\ pc[b] = "done"

\* C6: the budget is never negative.
C6_BudgetNonNegative == budgets >= 0

C6_Witness == budgets = 0 /\ debited = InitBudgets

IsRewind(b) == b \in DOMAIN tb /\ tb[b].kind = "RewindTime"

\* C7 as claimed: lastSettlementTime decreases in a step only while a
\* RewindTime buff is activated and still in the active set.
C7_Original ==
  [][last_claim' < last_claim
     => \E b \in DOMAIN tb :
          /\ IsRewind(b) /\ tb'[b].running
          /\ (InList(b) \/ \E k \in DOMAIN buffs' : buffs'[k] = b)]_vars

\* C7 amended: lastSettlementTime decreases in a step only when a RewindTime
\* buff is first activated, or in a step of that buff's expiry task: the
\* rewind it makes before its Collect and the restore it makes as its last
\* step, after the buff has left the active set.
C7_ClaimTimeBackward ==
  [][last_claim' < last_claim
     => \E b \in DOMAIN tb :
          /\ IsRewind(b)
          /\ \/ ~tb[b].running /\ tb'[b].running
             \/ pc[b] = "sleeping" /\ pc'[b] # "sleeping"
             \/ pc[b] = "post" /\ pc'[b] = "done"]_vars

C7_Witness ==
  \E b \in DOMAIN tb :
    IsRewind(b) /\ pc[b] = "done" /\ ~InList(b) /\ last_claim = orig[b]
    /\ last_claim < wake[b]

\* C8: when the expiry task of a RewindTime buff that was activated at
\* lastSettlementTime = T finishes, lastSettlementTime is T again.
C8_RestoresOriginal ==
  [][\A b \in DOMAIN tb :
       (IsRewind(b) /\ pc[b] = "post" /\ pc'[b] = "done")
       => last_claim' = T0[b]]_vars

\* C9: with a constant rate r, the settlements from a RewindTime buff's
\* activation through its expiry credit r*W more than the elapsed time
\* alone would have, W = (duration+amount)*stack.
C9_RewoundPaidOnce ==
  [][\A b \in DOMAIN tb :
       (IsRewind(b) /\ pc[b] = "post" /\ pc'[b] = "done")
       => \A r \in rates[b] :
            rates[b] = {r}
            => credited - cred0[b]
                 = r * (Round(wake[b] - T0[b]) + Rewound(tb[b]))]_vars

\* C10: while a buff's expiry task makes its Collect call the buff is in
\* the active set and folded into the rate; it has left the set only once
\* that Collect is over, and the rate is recomputed after the removal.
C10_RemovedAfterCollect ==
  \A b \in DOMAIN tb :
    /\ pc[b] \in {"created", "sleeping", "collect", "settle", "remove"} => InList(b)
    /\ pc[b] \in {"update", "display", "display_sleep", "post", "done"} => ~InList(b)
    /\ pc[b] = "settle" => income = UpdateIncome.income

C10_Witness ==
  \E b \in DOMAIN tb :
    /\ pc[b] = "remove" /\ InList(b) /\ last_claim = now
    /\ tb[b].kind = "DoubleIncome" /\ income > BaseIncome + staff_income

AfterRemoval == {"update", "display", "display_sleep", "post", "done"}

\* C11: while the program runs, every timed buff in the active set is
\* eventually removed from it by its own expiry task, which by then has made
\* its Collect call.
C11_EventuallyRemoved ==
  \A b \in BuffIds :
    (b \in DOMAIN tb /\ InList(b))
    ~> ((~InList(b) /\ pc[b] \in AfterRemoval) \/ pc[MainT] = "exit")

C11_Witness ==
  \E b \in DOMAIN tb :
    b > 1 /\ ~InList(b) /\ pc[b] = "done" /\ pc[MainT] # "exit"

\* Office.update_income has just run: the task that holds the event loop is
\* past the recomputation of collect, of _do_timeout or of the main loop
Recomputed ==
  \/ \E t \in Tasks : cur = t /\ pc[t] = "settle"
  \/ \E t \in BuffIds \cup {MainT} : cur = t /\ pc[t] = "display"

\* the modifiers in canonical order: the permanent ones, facility then list
\* order, then the timed ones in insertion order
Modifiers ==
  LET es == Effects(facilities)
  IN [k \in 1..(Len(es) + Len(buffs)) |->
        IF k <= Len(es)
        THEN [kind |-> "StaticBuff", amount |-> es[k].amount, stack |-> es[k].stack]
        ELSE [kind |-> tb[buffs[k - Len(es)]].kind,
              amount |-> tb[buffs[k - Len(es)]].amount,
              stack |-> tb[buffs[k - Len(es)]].stack]]

\* what one modifier makes of the rate r
ApplyModifier(r, m) ==
  CASE m.kind = "DoubleIncome" -> r + (r * (1 + m.stack))
    [] m.kind = "RewindTime" -> r
    [] OTHER -> r + ((r * (m.amount * m.stack)) \div 500)

\* the rate obtained from start by applying every modifier in canonical order
CanonicalRate(start) ==
  LET ms == Modifiers
      rate[k \in 0..Len(ms)] ==
        IF k = 0 THEN start ELSE ApplyModifier(rate[k - 1], ms[k])
  IN rate[Len(ms)]

\* C12 as stated: after every rate recomputation the rate is what the
\* modifiers in canonical order make of baseIncomeRate + staffIncomeContribution.
C12_Original ==
  Recomputed => income = CanonicalRate(BaseIncome + staff_income)

\* C12: after every rate recomputation the rate is what the modifiers in
\* canonical order make of baseIncomeRate alone, plus staffIncomeContribution,
\* which no modifier scales.
C12_StaffAddedLast ==
  Recomputed => income = CanonicalRate(BaseIncome) + staff_income

C12_Witness ==
  /\ Recomputed
  /\ staff_income > 0 /\ buffs # <<>>
  /\ income = CanonicalRate(BaseIncome) + staff_income
  /\ income # CanonicalRate(BaseIncome + staff_income)

\* budget, every facility's level and every modifier's amount and stack are
\* as they were
Untouched ==
  /\ budgets' = budgets
  /\ \A j \in DOMAIN facilities :
        /\ facilities'[j].level = facilities[j].level
        /\ facilities'[j].effects = facilities[j].effects

\* C13: an upgrade request with the 0-based index i - 1 outside
\* [0, len(facilities)) fails with IndexError whatever the budget; one with a
\* valid index whose cost exceeds the budget fails with NotEnoughBudget
\* carrying cost - budget; both leave the budget and every facility's level
\* and modifiers unchanged.
C13_UpgradeRejected ==
  [][\A i \in 0..(Len(facilities) + 1) :
       UserFacility(TRUE, i) =>
         IF i - 1 < 0 \/ i - 1 >= Len(facilities)
         THEN errors'.kind = "IndexError" /\ Untouched
         ELSE Cost(facilities[i]) > budgets =>
                /\ errors' = [kind |-> "NotEnoughBudget",
                              shortfall |-> Cost(facilities[i]) - budgets]
                /\ Untouched]_vars

C13_Witness ==
  /\ pc[MainT] = "recreate" /\ errors.kind = "NotEnoughBudget"
  /\ errors.shortfall > 0 /\ budgets > 0

\* C14: a successful upgrade of facility i debits exactly the pre-upgrade
\* cost, raises the level of facility i by 1, adds 4 to the amount of each of
\* its modifiers, adds 1 to their stack exactly when the new level is a
\* multiple of 10, and leaves every other facility's level and modifiers
\* unchanged.
C14_UpgradeApplied ==
  [][\A i \in DOMAIN facilities :
       (UserFacility(TRUE, i) /\ Cost(facilities[i]) <= budgets) =>
         /\ budgets' = budgets - Cost(facilities[i])
         /\ facilities'[i].level = facilities[i].level + 1
         /\ DOMAIN facilities'[i].effects = DOMAIN facilities[i].effects
         /\ \A k \in DOMAIN facilities[i].effects :
               /\ facilities'[i].effects[k].amount = facilities[i].effects[k].amount + 4
               /\ facilities'[i].effects[k].stack =
                    IF (facilities[i].level + 1) % 10 = 0
                    THEN facilities[i].effects[k].stack + 1
                    ELSE facilities[i].effects[k].stack
         /\ \A j \in DOMAIN facilities \ {i} :
               /\ facilities'[j].level = facilities[j].level
               /\ facilities'[j].effects = facilities[j].effects]_vars

C14_Witness ==
  /\ pc[MainT] = "loop" /\ errors = NoError /\ debited > 0
  /\ \E j \in DOMAIN facilities :
        /\ facilities[j].level = 10
        /\ facilities[j].effects[1].stack = InitFacilities[j].effects[1].stack + 1

\* C15: for each of the four facilities and every level L from 1 on, the cost
\* read at level L + 1 is strictly greater than the cost read at level L,
\* the cached base cost of level 1 included.
C15_CostIncreases ==
  [][\A j \in DOMAIN facilities :
       facilities'[j].level = facilities[j].level + 1 =>
         Cost(facilities'[j]) > Cost(facilities[j])]_vars

C15_Witness ==
  /\ pc[MainT] = "loop" /\ debited > 0
  /\ \E j \in DOMAIN facilities :
        /\ facilities[j].level = MaxLevel
        /\ Cost(facilities[j]) > debited

\* the hires a request can draw
AnyHire == HireDraws(1) \cup HireDraws(10)

\* the price shown for a hire of one (opt 1) or of ten (opt 2)
Quoted(opt) ==
  IF opt = 1 THEN staff_cost
  ELSE LET a == 10 - (staff_counts % 10)
       IN (a * staff_cost) + ((10 - a) * (3 * staff_cost))

\* C16: a hire of one or of ten whose price exceeds the budget fails with
\* NotEnoughBudget carrying price - budget and leaves the budget, the total
\* and per-rank counts, the retained roster, the unit cost and the staff
\* income contribution unchanged.
C16_HireRejected ==
  [][\A opt \in {1, 2}, st \in AnyHire :
       (UserHire(TRUE, opt, st) /\ Quoted(opt) > budgets) =>
         /\ errors' = [kind |-> "NotEnoughBudget",
                       shortfall |-> Quoted(opt) - budgets]
         /\ UNCHANGED <<budgets, staff_counts, staff_info, staffs, staff_cost,
                        staff_income>>]_vars

C16_Witness ==
  /\ pc[MainT] = "loop" /\ errors.kind = "NotEnoughBudget"
  /\ staff_counts = 10
  /\ errors.shortfall \in {Quoted(1) - budgets, Quoted(2) - budgets}

\* the contribution of the hires st: max(55 - age, 10) each
Contribution(st) ==
  LET sum[k \in 0..Len(st)] ==
        IF k = 0 THEN 0
        ELSE sum[k - 1] + (IF 55 - st[k].age > 10 THEN 55 - st[k].age ELSE 10)
  IN sum[Len(st)]

\* C17: a successful hire of k staff (1, or 10 for a batch) adds exactly k to
\* the total count and to the sum of the per-rank counts, adds the sum of
\* max(55 - age, 10) over the k hires to the staff income contribution, and
\* debits the budget by the price quoted before the hire.
C17_HireApplied ==
  [][\A opt \in {1, 2}, st \in AnyHire :
       (UserHire(TRUE, opt, st) /\ Quoted(opt) <= budgets) =>
         LET k == IF opt = 1 THEN 1 ELSE 10
         IN /\ Len(st) = k
            /\ staff_counts' = staff_counts + k
            /\ staff_info'.consultant + staff_info'.manager + staff_info'.leader
                 = staff_info.consultant + staff_info.manager + staff_info.leader + k
            /\ staff_income' = staff_income + Contribution(st)
            /\ budgets' = budgets - Quoted(opt)]_vars

C17_Witness ==
  /\ pc[MainT] = "loop" /\ errors = NoError
  /\ staff_counts = 10
  /\ staff_info.consultant + staff_info.manager + staff_info.leader = 10
  /\ staff_income = 10 * (55 - 18)

\* C18: the unit hire cost changes only in a step in which the total number
\* of hires crosses a multiple of 10, and then it is multiplied by 3.
C18_UnitCostByDecile ==
  [][staff_cost' # staff_cost =>
       /\ staff_counts' \div 10 > staff_counts \div 10
       /\ staff_cost' = 3 * staff_cost]_vars

\* C19: every upgrade request is handled by a generator that waits for an
\* index, a failed request included, and a valid request that the budget
\* covers succeeds whatever failed before it.
C19_FreshTransaction ==
  [][\A ok \in BOOLEAN, i \in 0..(Len(facilities) + 1) :
       UserFacility(ok, i) =>
         /\ upgrader = "AwaitingIndex"
         /\ (ok /\ i \in DOMAIN facilities /\ Cost(facilities[i]) <= budgets) =>
              /\ errors' = NoError
              /\ upgrader' = "AwaitingIndex"
              /\ facilities'[i].level = facilities[i].level + 1]_vars

C19_Witness ==
  /\ rejected /\ pc[MainT] = "loop" /\ errors = NoError
  /\ upgrader = "AwaitingIndex" /\ staff_counts = 0
  /\ \E j \in DOMAIN facilities :
        facilities[j].level = 2 /\ debited = Cost(InitFacilities[j])

\* C20: when the expiry task of a buff that is no longer in the active list
\* reaches its removal, no error is raised: the task goes on to its next step
\* and the list is unchanged.
C20_SilentNoop ==
  [][\A b \in BuffIds :
       (cur = b /\ pc[b] = "remove" /\ ~InList(b) /\ pc'[b] # "remove") =>
         (buffs' = buffs /\ pc'[b] = NextPc(b, "remove"))]_vars

IsExtra(b) == b \in DOMAIN tb /\ tb[b].kind = "ExtraBudget"

\* the last step of an ExtraBudget buff's expiry task
BonusStep(b) == IsExtra(b) /\ pc[b] = "post" /\ pc'[b] = "done"

\* C21: the last step of an ExtraBudget buff's expiry task, which comes after
\* the task's Collect, the removal of the buff and the rate recomputation,
\* adds budget*amount*stack/500 computed on the budget of that moment; no
\* other step but a settlement or a purchase changes the budget, and a task
\* that has ended takes no further step, so the bonus is granted once.
C21_BonusOnce ==
  [][/\ \A b \in BuffIds :
          BonusStep(b) =>
            /\ budgets' = budgets + ((budgets * (tb[b].amount * tb[b].stack)) \div 500)
            /\ ~InList(b)
     /\ budgets' # budgets =>
          \/ \E t \in Tasks : SettleStep(t)
          \/ pc[MainT] \in {"await_fi", "await_hire"}
          \/ \E b \in BuffIds : BonusStep(b)
     /\ \A b \in BuffIds : pc[b] = "done" => pc'[b] = "done"]_vars

C21_Witness ==
  \E b \in BuffIds :
    /\ IsExtra(b) /\ pc[b] = "done" /\ ~InList(b)
    /\ budgets >= 500 /\ credited > 0

\* the rate the first n modifiers in canonical order make of the base rate
RateBefore(n) ==
  LET ms == Modifiers
      rate[k \in 0..n] ==
        IF k = 0 THEN BaseIncome ELSE ApplyModifier(rate[k - 1], ms[k])
  IN rate[n]

\* C22: a rate recomputation with a DoubleIncome buff of stack s last in the
\* active list multiplies the rate accumulated before it by s + 1.
C22_DoubleIncome ==
  (Recomputed /\ buffs # <<>> /\ tb[buffs[Len(buffs)]].kind = "DoubleIncome") =>
    income - staff_income
      = (tb[buffs[Len(buffs)]].stack + 1) * RateBefore(Len(Modifiers) - 1)

\* a step in which Office.update_income runs
RecomputeStep ==
  \/ \E t \in Tasks : cur = t /\ pc[t] = "collect" /\ pc'[t] = "settle"
  \/ \E b \in BuffIds : cur = b /\ pc[b] = "update" /\ pc'[b] # "update"
  \/ cur = MainT /\ pc[MainT] = "loop" /\ pc'[MainT] = "display"

\* the RewindTime buffs a step activates for the first time
FirstRewinds ==
  {b \in DOMAIN tb : tb[b].kind = "RewindTime" /\ ~tb[b].running /\ tb'[b].running}

\* seconds the buffs of S rewind together
RECURSIVE TotalRewound(_)
TotalRewound(S) ==
  IF S = {} THEN 0
  ELSE LET b == CHOOSE x \in S : TRUE
       IN Rewound(tb[b]) + TotalRewound(S \ {b})

\* C23: the expiry task of a timed buff is created once, by the buff's first
\* activation, and no later activation creates or restarts it; a buff is in
\* the active list once and, once out of it, stays out; a rate recomputation
\* moves lastSettlementTime back only by the rewind of each RewindTime buff
\* it activates for the first time.
C23_OneTimer ==
  [][/\ \A b \in DOMAIN tb' :
          /\ (pc'[b] = "created" /\ (b \notin DOMAIN tb \/ pc[b] # "created")) =>
               /\ b \in DOMAIN tb /\ pc[b] = "idle" /\ RecomputeStep
               /\ ~tb[b].running /\ tb'[b].running
          /\ (b \in DOMAIN tb /\ tb[b].running) => (tb'[b].running /\ pc'[b] # "idle")
          /\ (b \in DOMAIN tb /\ ~InList(b)) => ~(\E k \in DOMAIN buffs' : buffs'[k] = b)
          /\ Cardinality({k \in DOMAIN buffs' : buffs'[k] = b}) <= 1
     /\ RecomputeStep => last_claim' = last_claim - Ticks(TotalRewound(FirstRewinds))]_vars

C23_Witness ==
  /\ Recomputed
  /\ \E b \in DOMAIN tb :
        /\ IsRewind(b) /\ tb[b].running /\ pc[b] = "sleeping" /\ InList(b)
        /\ now > T0[b]

\* C24: a rate recomputation leaves a state in which every active buff is
\* activated and another recomputation yields the same rate, so the modifiers
\* do not compound from one recomputation to the next; the recomputation an
\* expiry task makes comes after it has removed its buff, so it yields the
\* rate of the remaining modifiers.
C24_Idempotent ==
  [][RecomputeStep =>
       /\ \A k \in DOMAIN buffs' : tb'[buffs'[k]].running
       /\ (UpdateIncome.income)' = income'
       /\ \A b \in BuffIds :
            (cur = b /\ pc[b] = "update") =>
              ~InList(b) /\ ~(\E k \in DOMAIN buffs' : buffs'[k] = b)]_vars

C24_Witness ==
  /\ \E b \in BuffIds : cur = b /\ pc[b] = "display" /\ b > 1
  /\ buffs # <<>> /\ staff_income > 0
  /\ income = UpdateIncome.income /\ income > BaseIncome + staff_income

====
